---- MODULE Spec2Model ----
(***************************************************************************)
(* NanoMASK post-processing and staging scripts.                           *)
(*                                                                         *)
(*  - replace_tumor_from_task212.py  : the label merge (specification Spec) *)
(*  - prep_from_curated_LMR.py       : curated staging (specification       *)
(*                                     SpecPrep)                            *)
(*                                                                         *)
(* Arrays are flattened to sequences of integers beside their shape.       *)
(* Affine entries are integers in units of 1e-6.                           *)
(***************************************************************************)
EXTENDS Integers, Sequences, FiniteSets, TLC

VARIABLES
    \* ---- label merge ----
    pc,            \* position of main(): start, loaded, checked, merged, done, exit
    args,          \* parsed command line
    fs,            \* file system: path -> image file
    fs0,           \* the file system as it was when the run started
    img006,        \* loaded primary image (affine, header)
    img212,        \* loaded secondary image
    seg006,        \* primary array (raw after load, int16 after line 48)
    seg212,        \* secondary array
    out_arr,       \* merged array
    stderr,        \* messages written to the error stream
    stdout,        \* messages written to the output stream
    exitCode,      \* -1 while running
    saved,         \* paths handed to nib.save, in order
    \* ---- curated staging ----
    ppc,           \* position of main(): scan, done
    curated,       \* the curated directory: sorted sequence of subfolders
    idx,           \* index of the next subfolder of the loop
    imagesTr,      \* destination imagesTr: file name -> source
    labelsTr,      \* destination labelsTr: file name -> source
    training_entries,
    num_cases_written,
    skipped_plain,
    staged,        \* per visited subfolder: the case ids it appended
    dataset        \* dataset.json as written

mergeVars == <<pc, args, fs, fs0, img006, img212, seg006, seg212, out_arr,
               stderr, stdout, exitCode, saved>>
prepVars == <<ppc, curated, idx, imagesTr, labelsTr, training_entries,
              num_cases_written, skipped_plain, staged, dataset>>
vars == <<mergeVars, prepVars>>

(***************************************************************************)
(* Bounds                                                                  *)
(***************************************************************************)
\* number of voxels of the primary volume
NVox == 2
\* number of subfolders of the curated directory
MaxDirs == 2

(***************************************************************************)
(* Generic helpers                                                         *)
(***************************************************************************)
Abs(x) == IF x < 0 THEN -x ELSE x

RECURSIVE Prod(_)
Prod(s) == IF s = <<>> THEN 1 ELSE Head(s) * Prod(Tail(s))

SeqsOfLen(S, n) == [1..n -> S]

Range(s) == {s[i] : i \in DOMAIN s}

(***************************************************************************)
(* Label merge: replace_tumor_from_task212.py                              *)
(***************************************************************************)
\* width of numpy.int16
Int16Bits == 16

Pow2(n) == 2^n

\* variant of ToInt16: a cast that saturates instead of wrapping
ToInt16_Saturate(x) ==
    IF x >= Pow2(Int16Bits - 1) THEN Pow2(Int16Bits - 1) - 1
    ELSE IF x < -Pow2(Int16Bits - 1) THEN -Pow2(Int16Bits - 1)
    ELSE x

\* ndarray.astype(np.int16) of an integer value: two's complement wrap
ToInt16(x) ==
    ((x + Pow2(Int16Bits - 1)) % Pow2(Int16Bits)) - Pow2(Int16Bits - 1)

AsInt16(arr) == [i \in DOMAIN arr |-> ToInt16(arr[i])]

\* tumor212_mask = (seg212 > 0)
Mask212(s212) == [i \in DOMAIN s212 |-> s212[i] > 0]

\* tumor212_mask.any()
AnyTrue(mask) == \E i \in DOMAIN mask : mask[i]

\* variant of SameShape: compares the number of voxels only
SameShape_SizeOnly(a, b) == Prod(a.shape) = Prod(b.shape)

\* seg006.shape != seg212.shape, negated
SameShape(a, b) == a.shape = b.shape

\* absolute tolerance 1e-5 and numpy's default relative tolerance 1e-5
AtolMicro == 10
RtolInverse == 100000

\* variant of AllClose: the absolute tolerance alone
AllClose_AtolOnly(a, b) ==
    \A i \in DOMAIN a : Abs(a[i] - b[i]) <= AtolMicro

\* np.allclose(a, b, atol=1e-5) with numpy's default rtol=1e-5, entries in 1e-6:
\*   |a - b| <= atol + rtol * |b|
AllClose(a, b) ==
    \A i \in DOMAIN a :
        RtolInverse * Abs(a[i] - b[i]) <= RtolInverse * AtolMicro + Abs(b[i])

\* variant of FallbackEnabled: only the value 1 enables the fallback
FallbackEnabled_OnlyOne(flag) == flag = 1

\* if args.fallback_keep_006_if_212_empty:
FallbackEnabled(flag) == flag # 0

\* variant of RemoveLabel: clears every label from the target label upwards
RemoveLabel_AtLeast(arr, label) ==
    [i \in DOMAIN arr |-> IF arr[i] >= label THEN 0 ELSE arr[i]]

\* out_arr = seg006.copy(); out_arr[seg006 == tumor_label] = 0
RemoveLabel(arr, label) ==
    [i \in DOMAIN arr |-> IF arr[i] = label THEN 0 ELSE arr[i]]

\* variant of Stamp: stamps only voxels that are background after the zeroing
Stamp_BackgroundOnly(arr, mask, label) ==
    [i \in DOMAIN arr |->
        IF mask[i] /\ arr[i] = 0 THEN
            ((label + Pow2(Int16Bits - 1)) % Pow2(Int16Bits)) - Pow2(Int16Bits - 1)
        ELSE arr[i]]

\* out_arr[tumor212_mask] = tumor_label, into an int16 array
Stamp(arr, mask, label) ==
    [i \in DOMAIN arr |-> IF mask[i] THEN ToInt16(label) ELSE arr[i]]

\* variant of Replace: stamps the mask first, then zeroes the label
Replace_StampFirst(arr, mask, label) ==
    [i \in DOMAIN arr |->
        IF mask[i] \/ arr[i] = label THEN 0 ELSE arr[i]]

\* the replace branch: zero the label, then stamp the mask
Replace(arr, mask, label) == Stamp(RemoveLabel(arr, label), mask, label)

\* whether a Python int fits the int16 array it is assigned into
FitsInt16(x) == -Pow2(Int16Bits - 1) <= x /\ x < Pow2(Int16Bits - 1)

\* variant of OutTarget: saves over the primary input
OutTarget_Primary(a) == a.seg006

\* nib.save(..., args.out)
OutTarget(a) == a.out

\* nib.Nifti1Image(out_arr.astype(np.int16), img006.affine, img006.header)
OutImage(arr, shape, i006, i212) ==
    [exists |-> TRUE, shape |-> shape, data |-> AsInt16(arr),
     affine |-> i006.affine, header |-> i006.header]

NoFile == [exists |-> FALSE, shape |-> <<>>, data |-> <<>>,
           affine |-> <<>>, header |-> ""]
NoImage == [shape |-> <<>>, affine |-> <<>>, header |-> ""]

Paths == {"p006", "p212", "pout"}

\* values a primary label file can hold (65542 = 2^16 + 6 needs more than 16 bits)
PrimaryValues == {0, 2, 6, 65542}
\* values a secondary file can hold
SecondaryValues == {-1, 0, 3}
\* --tumor_label
TumorLabels == {2, 6, 65542}
\* --fallback_keep_006_if_212_empty
FallbackFlags == {0, 1, 2}
\* shapes of the secondary volume: equal, same size but other shape, smaller
PrimaryShape == <<NVox>>
SecondaryShapes == {<<NVox>>, <<1, NVox>>, <<NVox - 1>>}
\* affine of the primary volume: a scale entry 1.0 and a translation 100.0
PrimaryAffine == <<1000000, 100000000>>
\* affine of the secondary: equal, 5e-4 off in the translation, 5e-5 off in
\* the scale
SecondaryAffines == {<<1000000, 100000000>>, <<1000000, 100000500>>,
                     <<1000050, 100000000>>}

InitMerge ==
    /\ pc = "start"
    /\ \E p \in SeqsOfLen(PrimaryValues, NVox), sh \in SecondaryShapes,
          af \in SecondaryAffines :
         \E s \in SeqsOfLen(SecondaryValues, Prod(sh)) :
            fs = [q \in Paths |->
                    CASE q = "p006" ->
                           [exists |-> TRUE, shape |-> PrimaryShape, data |-> p,
                            affine |-> PrimaryAffine, header |-> "hdr006"]
                      [] q = "p212" ->
                           [exists |-> TRUE, shape |-> sh, data |-> s,
                            affine |-> af, header |-> "hdr212"]
                      [] OTHER -> NoFile]
    /\ fs0 = fs
    /\ \E l \in TumorLabels, f \in FallbackFlags, o \in Paths :
         args = [seg006 |-> "p006", seg212 |-> "p212", out |-> o,
                 tumor_label |-> l, fallback |-> f]
    /\ img006 = NoImage
    /\ img212 = NoImage
    /\ seg006 = <<>>
    /\ seg212 = <<>>
    /\ out_arr = <<>>
    /\ stderr = <<>>
    /\ stdout = <<>>
    /\ exitCode = -1
    /\ saved = <<>>

\* lines 37-38: load_nii of both inputs
Load ==
    /\ pc = "start"
    /\ img006' = [shape |-> fs[args.seg006].shape,
                  affine |-> fs[args.seg006].affine,
                  header |-> fs[args.seg006].header]
    /\ seg006' = fs[args.seg006].data
    /\ img212' = [shape |-> fs[args.seg212].shape,
                  affine |-> fs[args.seg212].affine,
                  header |-> fs[args.seg212].header]
    /\ seg212' = fs[args.seg212].data
    /\ pc' = "loaded"
    /\ UNCHANGED <<args, fs, fs0, out_arr, stderr, stdout, exitCode, saved>>
    /\ UNCHANGED prepVars

\* lines 41-43: shape mismatch, sys.exit(2)
ShapeMismatch ==
    /\ pc = "loaded"
    /\ ~SameShape(img006, img212)
    /\ stderr' = Append(stderr, "ERROR")
    /\ exitCode' = 2
    /\ pc' = "exit"
    /\ UNCHANGED <<args, fs, fs0, img006, img212, seg006, seg212, out_arr,
                   stdout, saved>>
    /\ UNCHANGED prepVars

\* lines 44-48: affine comparison (warning only), then the int16 cast
CheckAffine ==
    /\ pc = "loaded"
    /\ SameShape(img006, img212)
    /\ stderr' = IF ~AllClose(img006.affine, img212.affine)
                 THEN Append(stderr, "WARN") ELSE stderr
    /\ seg006' = AsInt16(seg006)
    /\ pc' = "checked"
    /\ UNCHANGED <<args, fs, fs0, img006, img212, seg212, out_arr, stdout,
                   exitCode, saved>>
    /\ UNCHANGED prepVars

\* lines 54-57: empty mask, fallback enabled
MergeKeep ==
    /\ pc = "checked"
    /\ ~AnyTrue(Mask212(seg212))
    /\ FallbackEnabled(args.fallback)
    /\ out_arr' = seg006
    /\ stdout' = Append(stdout, "INFO")
    /\ pc' = "merged"
    /\ UNCHANGED <<args, fs, fs0, img006, img212, seg006, seg212, stderr,
                   exitCode, saved>>
    /\ UNCHANGED prepVars

\* lines 58-61: empty mask, fallback disabled
MergeRemove ==
    /\ pc = "checked"
    /\ ~AnyTrue(Mask212(seg212))
    /\ ~FallbackEnabled(args.fallback)
    /\ out_arr' = RemoveLabel(seg006, args.tumor_label)
    /\ stdout' = Append(stdout, "INFO")
    /\ pc' = "merged"
    /\ UNCHANGED <<args, fs, fs0, img006, img212, seg006, seg212, stderr,
                   exitCode, saved>>
    /\ UNCHANGED prepVars

\* lines 62-67: non-empty mask
MergeReplace ==
    /\ pc = "checked"
    /\ AnyTrue(Mask212(seg212))
    /\ out_arr' = Replace(seg006, Mask212(seg212), args.tumor_label)
    /\ stdout' = Append(stdout, "OK")
    /\ pc' = "merged"
    /\ UNCHANGED <<args, fs, fs0, img006, img212, seg006, seg212, stderr,
                   exitCode, saved>>
    /\ UNCHANGED prepVars

\* line 66 with a label that does not fit int16: numpy >= 2 raises
\* OverflowError (older releases wrap, which is MergeReplace)
MergeOverflow ==
    /\ pc = "checked"
    /\ AnyTrue(Mask212(seg212))
    /\ ~FitsInt16(args.tumor_label)
    /\ stderr' = Append(stderr, "OverflowError")
    /\ exitCode' = 1
    /\ pc' = "exit"
    /\ UNCHANGED <<args, fs, fs0, img006, img212, seg006, seg212, out_arr,
                   stdout, saved>>
    /\ UNCHANGED prepVars

\* lines 69-70: nib.save(...) and the final message
Save ==
    /\ pc = "merged"
    /\ fs' = [fs EXCEPT ![OutTarget(args)] =
                 OutImage(out_arr, img006.shape, img006, img212)]
    /\ saved' = Append(saved, OutTarget(args))
    /\ stdout' = Append(stdout, "DONE")
    /\ exitCode' = 0
    /\ pc' = "done"
    /\ UNCHANGED <<args, fs0, img006, img212, seg006, seg212, out_arr, stderr>>
    /\ UNCHANGED prepVars

NextMerge ==
    \/ Load
    \/ ShapeMismatch
    \/ CheckAffine
    \/ MergeKeep
    \/ MergeRemove
    \/ MergeReplace
    \/ MergeOverflow
    \/ Save


(***************************************************************************)
(* Curated staging: prep_from_curated_LMR.py                               *)
(***************************************************************************)
VALID_FLAGS == {"L", "M", "R"}

\* code points of the characters folder names are built from
Ord(c) ==
    CASE c = "-" -> 45
      [] c = "L" -> 76
      [] c = "M" -> 77
      [] c = "R" -> 82
      [] c = "a" -> 97
      [] c = "b" -> 98

\* string comparison, as sorted() compares the folder names
RECURSIVE LexLess(_, _)
LexLess(s, t) ==
    IF t = <<>> THEN FALSE
    ELSE IF s = <<>> THEN TRUE
    ELSE IF Ord(Head(s)) # Ord(Head(t)) THEN Ord(Head(s)) < Ord(Head(t))
    ELSE LexLess(Tail(s), Tail(t))

\* variant of Dedup: repeated flags are kept
RECURSIVE Dedup_KeepAll(_)
Dedup_KeepAll(s) ==
    IF s = <<>> THEN <<>> ELSE Append(Dedup_KeepAll(SubSeq(s, 1, Len(s) - 1)), s[Len(s)])

\* list(dict.fromkeys(s)): first occurrences, order kept
RECURSIVE Dedup(_)
Dedup(s) ==
    IF s = <<>> THEN <<>>
    ELSE LET r == Dedup(SubSeq(s, 1, Len(s) - 1))
             c == s[Len(s)]
         IN IF c \in Range(r) THEN r ELSE Append(r, c)

\* position of the first "-" of a name, 0 when there is none
FirstDash(name) ==
    IF \E i \in DOMAIN name : name[i] = "-"
    THEN CHOOSE i \in DOMAIN name :
            name[i] = "-" /\ \A j \in 1..(i - 1) : name[j] # "-"
    ELSE 0

IsValidFlag(c) == c \in VALID_FLAGS

\* re.match(r"^(?P<base>[^-]+)(?:-(?P<flags>[LMR]+))?$", name) and what
\* parse_flags_from_dirname returns: <<base, flags>>
parse_flags_from_dirname(name) ==
    LET d == FirstDash(name)
        suffix == SubSeq(name, d + 1, Len(name))
    IN IF d = 0
       THEN <<name, <<>> >>
       ELSE IF d > 1 /\ suffix # <<>> /\ \A i \in DOMAIN suffix : suffix[i] \in {"L", "M", "R"}
            THEN <<SubSeq(name, 1, d - 1), Dedup(SelectSeq(suffix, IsValidFlag))>>
            ELSE <<name, <<>> >>

\* NIfTI files a subfolder can hold, in the order sorted(key=name) gives
CtFile == [stem |-> "ct", ext |-> ".nii.gz"]
PetFile == [stem |-> "pet", ext |-> ".nii"]
LabelFile == [stem |-> "label", ext |-> ".nii.gz"]
NiftiByName == <<CtFile, LabelFile, PetFile>>
NiftiFiles == Range(NiftiByName)
NoLabel == [stem |-> "", ext |-> ""]

\* the label globs: label.nii.gz, label.nii, *_label..., mask...
MatchesLabelGlob(f) == f.stem \in {"label", "mask"}

\* first file matching a label glob, or None
find_label_file(files) ==
    IF \E f \in files : MatchesLabelGlob(f)
    THEN CHOOSE f \in files : MatchesLabelGlob(f)
    ELSE NoLabel

\* lines 122-129: the NIfTI files that are not the label, sorted by name
image_files(files) ==
    LET lbl == find_label_file(files)
        keep(f) == f \in files /\ f # lbl
    IN SelectSeq(NiftiByName, keep)

\* f"{base}-{flag}"
CaseId(base, flag) == base \o <<"-", flag>>

\* link_or_copy(src, dst): an existing dst is unlinked, then dst is made from src
link_or_copy(dir, src, dst) ==
    {e \in dir : e.dst # dst} \cup {[dst |-> dst, src |-> src]}

\* lines 135-138 for one case: every image modality is materialised
RECURSIVE StageImages(_, _, _, _, _)
StageImages(dir, from, case_id, imgs, k) ==
    IF k > Len(imgs) THEN dir
    ELSE StageImages(
            link_or_copy(dir, [folder |-> from, file |-> imgs[k]],
                         [case |-> case_id, k |-> k - 1, ext |-> imgs[k].ext]),
            from, case_id, imgs, k + 1)

\* lines 147-154 for one case
StageLabel(dir, from, case_id, lbl) ==
    IF lbl = NoLabel THEN dir
    ELSE link_or_copy(dir, [folder |-> from, file |-> lbl],
                      [case |-> case_id, k |-> -1, ext |-> lbl.ext])

\* lines 156-159: the entry of one case
Entry(case_id, imgs, lbl) ==
    [image |-> [case |-> case_id, k |-> 0, ext |-> imgs[1].ext],
     label |-> IF lbl = NoLabel THEN <<>>
               ELSE << [case |-> case_id, k |-> -1, ext |-> lbl.ext] >>]

\* lines 132-160: the loop over the flags of one subfolder; the state is
\* <<imagesTr, labelsTr, training_entries, cases>>
RECURSIVE StageFlags(_, _, _, _, _)
StageFlags(st, folder, base, flags, i) ==
    IF i > Len(flags) THEN st
    ELSE LET case_id == CaseId(base, flags[i])
             imgs == image_files(folder.files)
             lbl == find_label_file(folder.files)
         IN StageFlags(
              << StageImages(st[1], folder.name, case_id, imgs, 1),
                 StageLabel(st[2], folder.name, case_id, lbl),
                 Append(st[3], Entry(case_id, imgs, lbl)),
                 Append(st[4], case_id) >>,
              folder, base, flags, i + 1)

\* folder names of the curated directory
DirNames == { <<"a">>, <<"a", "-", "L">>, <<"a", "-", "L", "L">>,
              <<"a", "-", "L", "M">>, <<"a", "-", "M", "L">>,
              <<"a", "-", "b", "-", "L">>, <<"b", "-", "R">>, <<"b">> }

\* sorted(curated.iterdir())
SortedDirs(S) ==
    CHOOSE s \in [1..Cardinality(S) -> S] :
        /\ \A i, j \in DOMAIN s : i < j => LexLess(s[i].name, s[j].name)

\* the sets of folder names a curated directory can hold
NameSets == {M \in SUBSET DirNames : Cardinality(M) <= MaxDirs}

NoDataset == [written |-> FALSE, numTraining |-> 0, training |-> <<>>]

InitPrep ==
    /\ ppc = "scan"
    /\ \E N \in NameSets : \E f \in [N -> SUBSET NiftiFiles] :
          curated = SortedDirs({[name |-> n, files |-> f[n]] : n \in N})
    /\ idx = 1
    /\ imagesTr = {}
    /\ labelsTr = {}
    /\ training_entries = <<>>
    /\ num_cases_written = 0
    /\ skipped_plain = 0
    /\ staged = <<>>
    /\ dataset = NoDataset

\* lines 115-118: a folder without flags
SkipPlain ==
    /\ ppc = "scan"
    /\ idx <= Len(curated)
    /\ parse_flags_from_dirname(curated[idx].name)[2] = <<>>
    /\ skipped_plain' = skipped_plain + 1
    /\ staged' = Append(staged, [folder |-> curated[idx], cases |-> <<>>])
    /\ idx' = idx + 1
    /\ UNCHANGED <<ppc, curated, imagesTr, labelsTr, training_entries,
                   num_cases_written, dataset>>
    /\ UNCHANGED mergeVars

\* lines 121-126: a flagged folder without image files
SkipNoImages ==
    /\ ppc = "scan"
    /\ idx <= Len(curated)
    /\ parse_flags_from_dirname(curated[idx].name)[2] # <<>>
    /\ image_files(curated[idx].files) = <<>>
    /\ staged' = Append(staged, [folder |-> curated[idx], cases |-> <<>>])
    /\ idx' = idx + 1
    /\ UNCHANGED <<ppc, curated, imagesTr, labelsTr, training_entries,
                   num_cases_written, skipped_plain, dataset>>
    /\ UNCHANGED mergeVars

\* lines 131-160: one case per flag
StageDir ==
    /\ ppc = "scan"
    /\ idx <= Len(curated)
    /\ LET pf == parse_flags_from_dirname(curated[idx].name)
           st == StageFlags(<<imagesTr, labelsTr, training_entries, <<>> >>,
                            curated[idx], pf[1], pf[2], 1)
       IN /\ pf[2] # <<>>
          /\ image_files(curated[idx].files) # <<>>
          /\ imagesTr' = st[1]
          /\ labelsTr' = st[2]
          /\ training_entries' = st[3]
          /\ num_cases_written' = num_cases_written + Len(st[4])
          /\ staged' = Append(staged, [folder |-> curated[idx], cases |-> st[4]])
    /\ idx' = idx + 1
    /\ UNCHANGED <<ppc, curated, skipped_plain, dataset>>
    /\ UNCHANGED mergeVars

\* lines 184-204: dataset.json
WriteDataset ==
    /\ ppc = "scan"
    /\ idx > Len(curated)
    /\ dataset' = [written |-> TRUE,
                   numTraining |-> Len(training_entries),
                   training |-> training_entries]
    /\ ppc' = "done"
    /\ UNCHANGED <<curated, idx, imagesTr, labelsTr, training_entries,
                   num_cases_written, skipped_plain, staged>>
    /\ UNCHANGED mergeVars

NextPrep ==
    \/ SkipPlain
    \/ SkipNoImages
    \/ StageDir
    \/ WriteDataset

(***************************************************************************)
(* Specifications                                                          *)
(***************************************************************************)
\* the staging script at rest while the label merge runs
PrepIdle ==
    /\ ppc = "idle"
    /\ curated = <<>>
    /\ idx = 1
    /\ imagesTr = {}
    /\ labelsTr = {}
    /\ training_entries = <<>>
    /\ num_cases_written = 0
    /\ skipped_plain = 0
    /\ staged = <<>>
    /\ dataset = NoDataset

\* the label merge at rest while the staging script runs
MergeIdle ==
    /\ pc = "idle"
    /\ args = [seg006 |-> "p006", seg212 |-> "p212", out |-> "pout",
               tumor_label |-> 6, fallback |-> 0]
    /\ fs = [q \in Paths |-> NoFile]
    /\ fs0 = fs
    /\ img006 = NoImage
    /\ img212 = NoImage
    /\ seg006 = <<>>
    /\ seg212 = <<>>
    /\ out_arr = <<>>
    /\ stderr = <<>>
    /\ stdout = <<>>
    /\ exitCode = -1
    /\ saved = <<>>

Init == InitMerge /\ PrepIdle
Next == NextMerge
Spec == Init /\ [][Next]_vars

InitP == InitPrep /\ MergeIdle
NextP == NextPrep
SpecPrep == InitP /\ [][NextP]_vars


(***************************************************************************)
(* Properties of the label merge (specification Spec)                      *)
(***************************************************************************)
\* the arrays as stored in the input files when the run started
Primary0 == fs0["p006"].data
Secondary0 == fs0["p212"].data
\* the array of the file the run wrote
Written == fs[args.out].data
Voxels == DOMAIN Primary0
Flagged(v) == Secondary0[v] > 0
SecondaryEmpty == \A v \in DOMAIN Secondary0 : ~(Secondary0[v] > 0)
ShapesEqual == fs0["p006"].shape = fs0["p212"].shape
\* the value a 16-bit signed integer holds after an integer is cast to it
Cast16(x) ==
    LET m == x % 65536 IN IF m < 32768 THEN m ELSE m - 65536
LabelFits == -32768 <= args.tumor_label /\ args.tumor_label <= 32767
\* the primary array the merge works on: the loaded array as 16-bit integers
Primary16 == [v \in Voxels |-> Cast16(Primary0[v])]
\* the merge, voxel by voxel, as the specification describes it
Expected(v) ==
    IF Flagged(v) THEN Cast16(args.tumor_label)
    ELSE IF SecondaryEmpty /\ args.fallback # 0 THEN Primary16[v]
    ELSE IF Primary16[v] = args.tumor_label THEN 0
    ELSE Primary16[v]

\* C1 as stated: after a successful run every voxel flagged by the secondary
\* map holds the target label, for every target label.
C1_Original ==
    pc = "done" =>
        \A v \in Voxels : Flagged(v) => Written[v] = args.tumor_label

\* C1 (amended): for every target label that a 16-bit signed integer can
\* hold, after a successful run every voxel flagged by the secondary map
\* holds the target label, whatever the primary value and the fallback flag.
C1_FlaggedIsTarget ==
    (pc = "done" /\ LabelFits) =>
        \A v \in Voxels : Flagged(v) => Written[v] = args.tumor_label

C1_Witness ==
    /\ pc = "done"
    /\ LabelFits
    /\ args.fallback # 0
    /\ \E v \in Voxels :
         /\ Flagged(v)
         /\ Primary0[v] \notin {0, args.tumor_label}
         /\ Written[v] = args.tumor_label

\* C2 as stated: every voxel not flagged whose primary value differs from the
\* target label holds its primary value in the written array.
C2_Original ==
    pc = "done" =>
        \A v \in Voxels :
            (~Flagged(v) /\ Primary0[v] # args.tumor_label)
                => Written[v] = Primary0[v]

\* C2 (amended): in every branch, every voxel not flagged whose primary
\* value, cast to a 16-bit signed integer, differs from the target label
\* holds that cast value in the written array.
C2_UnflaggedKeepsCast ==
    pc = "done" =>
        \A v \in Voxels :
            (~Flagged(v) /\ Cast16(Primary0[v]) # args.tumor_label)
                => Written[v] = Cast16(Primary0[v])

C2_Witness ==
    /\ pc = "done"
    /\ \E v, w \in Voxels :
         /\ Flagged(w)
         /\ ~Flagged(v)
         /\ Primary0[v] > 32767
         /\ Cast16(Primary0[v]) # args.tumor_label
         /\ Written[v] = Cast16(Primary0[v])

\* the three cases of C3 for one voxel, p its primary label
C3_Retains(v, p) ==
    ~Flagged(v) /\ p # args.tumor_label /\ Written[v] = p
C3_IsTarget(v) == Flagged(v) /\ Written[v] = args.tumor_label
C3_IsBackground(v, p) ==
    ~Flagged(v) /\ p = args.tumor_label /\ Written[v] = 0
C3_OneCase(v, p) ==
    /\ C3_Retains(v, p) \/ C3_IsTarget(v) \/ C3_IsBackground(v, p)
    /\ ~(C3_Retains(v, p) /\ C3_IsTarget(v))
    /\ ~(C3_Retains(v, p) /\ C3_IsBackground(v, p))
    /\ ~(C3_IsTarget(v) /\ C3_IsBackground(v, p))
FallbackBranch == SecondaryEmpty /\ args.fallback # 0
PrimaryFits == \A v \in Voxels : Primary0[v] = Cast16(Primary0[v])

\* C3 as stated, on primary labels and a target label that 16-bit signed
\* integers hold: after every successful run, whatever the fallback flag,
\* each voxel is in exactly one of the three cases.
C3_Original ==
    (pc = "done" /\ LabelFits /\ PrimaryFits) =>
        \A v \in Voxels : C3_OneCase(v, Primary0[v])

\* C3 (amended): after every successful run with a target label that a
\* 16-bit signed integer can hold, and with the primary labels read as cast
\* to 16-bit signed integers, each voxel is in exactly one of the three
\* cases unless the fallback branch ran (empty secondary, flag non-zero); in
\* the fallback branch every voxel keeps its primary label, the target
\* label included.
C3_ThreeCases ==
    (pc = "done" /\ LabelFits) =>
        /\ ~FallbackBranch => \A v \in Voxels : C3_OneCase(v, Primary16[v])
        /\ FallbackBranch => \A v \in Voxels : Written[v] = Primary16[v]

C3_Witness ==
    /\ pc = "done"
    /\ LabelFits
    /\ \E v, w \in Voxels :
         C3_IsTarget(v) /\ C3_IsBackground(w, Primary16[w])

\* C4: with differing shapes the run reports the error, exits with code 2,
\* never merges and leaves the file system as it was; exit code 0 and a
\* written file occur only with equal shapes.
C4_ShapeMismatchFatal ==
    /\ (~ShapesEqual /\ pc \notin {"start", "loaded"}) =>
          /\ pc = "exit"
          /\ exitCode = 2
          /\ stderr = <<"ERROR">>
          /\ out_arr = <<>>
          /\ saved = <<>>
          /\ fs = fs0
    /\ (exitCode = 0 \/ saved # <<>> \/ fs # fs0) => ShapesEqual
    /\ exitCode = 2 => ~ShapesEqual

C4_Witness ==
    /\ pc = "exit"
    /\ exitCode = 2
    /\ Len(Primary0) = Len(Secondary0)
    /\ ~ShapesEqual
    /\ ~fs["pout"].exists

\* C5 as stated: in the default empty-secondary branch the output is the
\* primary array with every target-label voxel set to 0 and every other
\* voxel unchanged.
C5_Original ==
    (pc = "done" /\ SecondaryEmpty /\ args.fallback = 0) =>
        \A v \in Voxels :
            Written[v] = IF Primary0[v] = args.tumor_label THEN 0
                         ELSE Primary0[v]

\* C5 (amended): in the default empty-secondary branch the output is the
\* primary array cast to 16-bit signed integers, with every voxel that then
\* holds the target label set to 0 and every other voxel unchanged; the
\* branch applied to its own output gives that output again.
C5_RemoveBranch ==
    (pc = "done" /\ SecondaryEmpty /\ args.fallback = 0) =>
        /\ \A v \in Voxels :
              Written[v] = IF Primary16[v] = args.tumor_label THEN 0
                           ELSE Primary16[v]
        /\ AsInt16(RemoveLabel(AsInt16(Written), args.tumor_label)) = Written

C5_Witness ==
    /\ pc = "done"
    /\ SecondaryEmpty
    /\ args.fallback = 0
    /\ \E v, w \in Voxels :
         /\ Primary0[v] > 32767
         /\ Primary16[v] = args.tumor_label
         /\ Written[v] = 0
         /\ Primary16[w] \notin {0, args.tumor_label}
         /\ Written[w] = Primary16[w]

\* C6 as stated: in the fallback branch (empty secondary, flag any non-zero
\* integer) the output equals the primary array at every voxel.
C6_Original ==
    (pc = "done" /\ SecondaryEmpty /\ args.fallback # 0) =>
        \A v \in Voxels : Written[v] = Primary0[v]

\* C6 (amended): in the fallback branch (empty secondary, flag any non-zero
\* integer) the output equals the primary array cast to 16-bit signed
\* integers at every voxel, target-label voxels included.
C6_FallbackKeeps ==
    (pc = "done" /\ SecondaryEmpty /\ args.fallback # 0) =>
        \A v \in Voxels : Written[v] = Primary16[v]

C6_Witness ==
    /\ pc = "done"
    /\ SecondaryEmpty
    /\ args.fallback = 2
    /\ \E v, w \in Voxels :
         /\ Primary0[v] = args.tumor_label
         /\ Written[v] = args.tumor_label
         /\ Primary0[w] > 32767
         /\ Written[w] = Primary16[w]

\* C7 as stated: for every choice of the three paths the input files are the
\* same after the run as before, and exactly one file is written.
C7_Original ==
    pc = "done" =>
        /\ fs[args.seg006] = fs0[args.seg006]
        /\ fs[args.seg212] = fs0[args.seg212]
        /\ Len(saved) = 1

\* C7 (amended): when --out names neither input file, the input files are
\* the same after the run as before; in every run exactly one file, the one
\* --out names, is written, and every other file is left as it was (so an
\* input that --out names is replaced by the merged output).
C7_InputsKept ==
    /\ args.out \notin {args.seg006, args.seg212} =>
          /\ fs[args.seg006] = fs0[args.seg006]
          /\ fs[args.seg212] = fs0[args.seg212]
    /\ pc = "done" =>
          /\ saved = <<args.out>>
          /\ fs[args.out].exists
          /\ \A q \in Paths : q # args.out => fs[q] = fs0[q]
    /\ pc # "done" => (fs = fs0 /\ saved = <<>>)

C7_Witness ==
    /\ pc = "done"
    /\ args.out = "pout"
    /\ fs["pout"].exists
    /\ fs["pout"].data # Primary0
    /\ fs["p006"] = fs0["p006"]
    /\ fs["p212"] = fs0["p212"]

\* some affine entry differs by more than 1e-5
AffineOffByMoreThanAtol ==
    \E i \in DOMAIN fs0["p006"].affine :
        Abs(fs0["p006"].affine[i] - fs0["p212"].affine[i]) > 10
\* some affine entry fails |a - b| <= 1e-5 + 1e-5 * |b|
AffineNotClose ==
    \E i \in DOMAIN fs0["p006"].affine :
        100000 * Abs(fs0["p006"].affine[i] - fs0["p212"].affine[i])
            > 1000000 + Abs(fs0["p212"].affine[i])
Warned == \E i \in DOMAIN stderr : stderr[i] = "WARN"

\* C8 as stated: with equal shapes and affines that differ by more than
\* 1e-5 the run emits the warning.
C8_Original ==
    (pc \in {"checked", "merged", "done"} /\ AffineOffByMoreThanAtol)
        => Warned

\* C8 (amended): with equal shapes the warning is emitted exactly when some
\* affine entry fails |a - b| <= 1e-5 + 1e-5 * |b| (absolute tolerance 1e-5
\* plus the default relative tolerance 1e-5); the affine comparison never
\* stops the run, the written file carries the primary map's affine and
\* header, and the merged array does not depend on the affines.
C8_AffineWarningOnly ==
    /\ pc \in {"checked", "merged", "done"} => (Warned <=> AffineNotClose)
    /\ pc = "exit" => (~ShapesEqual \/ ~LabelFits)
    /\ pc = "done" =>
          /\ exitCode = 0
          /\ fs[args.out].affine = fs0["p006"].affine
          /\ fs[args.out].header = fs0["p006"].header
          /\ \A v \in Voxels : Written[v] = Expected(v)

C8_Witness ==
    /\ pc = "done"
    /\ Warned
    /\ exitCode = 0
    /\ fs[args.out].affine # fs0["p212"].affine
    /\ fs[args.out].affine = fs0["p006"].affine

(***************************************************************************)
(* Properties of the curated staging (specification SpecPrep)              *)
(***************************************************************************)
\* a name of the form <base>-<flags>: the position of its only "-"
FlagDash(name) ==
    IF \E i \in 2..(Len(name) - 1) :
          /\ name[i] = "-"
          /\ \A j \in 1..(i - 1) : name[j] # "-"
          /\ \A j \in (i + 1)..Len(name) : name[j] \in {"L", "M", "R"}
    THEN CHOOSE i \in 2..(Len(name) - 1) :
          /\ name[i] = "-"
          /\ \A j \in 1..(i - 1) : name[j] # "-"
    ELSE 0
\* the distinct flags a folder name carries
NameFlags(name) ==
    IF FlagDash(name) = 0 THEN {}
    ELSE {name[j] : j \in (FlagDash(name) + 1)..Len(name)}
\* the cases a flagged folder is to generate: <base>-<flag>
NameCases(name) ==
    {SubSeq(name, 1, FlagDash(name) - 1) \o <<"-", f>> : f \in NameFlags(name)}
\* the folder holds a NIfTI file that is not a label file
HasImage(folder) == \E f \in folder.files : f.stem \notin {"label", "mask"}
NoRepeat(s) == \A i, j \in DOMAIN s : s[i] = s[j] => i = j
RECURSIVE AllCases(_)
AllCases(st) ==
    IF st = <<>> THEN <<>> ELSE st[1].cases \o AllCases(Tail(st))
EntryCases == [i \in DOMAIN training_entries |-> training_entries[i].image.case]

\* C9 as stated: a folder without flags produces no case; every folder whose
\* name carries flags generates exactly one case <base>-<flag> per distinct
\* flag, each appended as one training entry.
C9_Original ==
    /\ \A i \in DOMAIN staged :
          LET r == staged[i] IN
          /\ NameFlags(r.folder.name) = {} => r.cases = <<>>
          /\ NameFlags(r.folder.name) # {} =>
                /\ NoRepeat(r.cases)
                /\ Range(r.cases) = NameCases(r.folder.name)
    /\ EntryCases = AllCases(staged)

\* C9 (amended): a folder without flags produces no case; a folder named
\* <base>-<flags> that holds at least one image NIfTI file generates exactly
\* one case <base>-<flag> per distinct flag, each appended as one training
\* entry; a flagged folder without image files is skipped and produces no
\* case.
C9_OneCasePerFlag ==
    /\ \A i \in DOMAIN staged :
          LET r == staged[i] IN
          /\ NameFlags(r.folder.name) = {} => r.cases = <<>>
          /\ (NameFlags(r.folder.name) # {} /\ HasImage(r.folder)) =>
                /\ NoRepeat(r.cases)
                /\ Range(r.cases) = NameCases(r.folder.name)
          /\ ~HasImage(r.folder) => r.cases = <<>>
    /\ EntryCases = AllCases(staged)
    /\ num_cases_written = Len(training_entries)

C9_Witness ==
    \E i, j \in DOMAIN staged :
        /\ staged[i].folder.name = <<"a", "-", "L", "L">>
        /\ staged[i].cases = << <<"a", "-", "L">> >>
        /\ staged[j].folder.name = <<"a", "-", "M", "L">>
        /\ staged[j].cases = << <<"a", "-", "M">>, <<"a", "-", "L">> >>

\* the case ids that have an image file in imagesTr
CasesInImagesTr == {e.dst.case : e \in imagesTr}

\* C10: once dataset.json is written its training entries name pairwise
\* distinct cases, numTraining is the number of distinct case ids with image
\* files in imagesTr, and every staged case still holds the files of the
\* subfolder that staged it.
C10_ManifestConsistent ==
    ppc = "done" =>
        /\ NoRepeat([i \in DOMAIN dataset.training |->
                        dataset.training[i].image.case])
        /\ dataset.numTraining = Cardinality(CasesInImagesTr)
        /\ \A i \in DOMAIN staged : \A c \in Range(staged[i].cases) :
              \A e \in imagesTr :
                  e.dst.case = c => e.src.folder = staged[i].folder.name

====
